---- MODULE Spec2Model ----
(***************************************************************************)
(* RabbitFlow: the topology provisioning protocol of core.py               *)
(* (MessageInfrastructure, ExchangePair, TopicQueuePair), the application  *)
(* of app.py (RabbitFlow.register_*, run) and rabbit.py (RabbitClient),    *)
(* against an AMQP broker that answers as section 6 of the specification   *)
(* describes: a failed channel operation closes the channel.               *)
(***************************************************************************)
EXTENDS Naturals, Sequences, FiniteSets, TLC

VARIABLES
    exchanges,    \* broker: set of [name, type]; the name is the identity
    ebindings,    \* broker: exchange-to-exchange bindings [source, destination, routing_key]
    queues,       \* broker: names of the durable queues
    qbindings,    \* broker: queue bindings [exchange, queue, routing_key]
    faultBudget,  \* transient channel closures the broker may still inject
    comp,         \* the MessageInfrastructure component under construction / set up
    channel,      \* which handle comp.channel is: "rabbit" (RabbitClient.channel) or "fresh"
    isClosed,     \* [rabbit |-> ..., fresh |-> ...]: is_closed of the two handles
    pc,           \* position inside setup(); "idle" outside a call
    result,       \* outcome of the last finished setup(): "none", "ok", "error"
    error,        \* what the last failed setup() reported
    callNo,       \* number of setup() calls started on comp
    ops,          \* broker operations issued by the current / last setup() call
    startBroker,  \* the broker's resources when the current / last call started
    prevCall,     \* outcome of the call before, on the same component
    reacquired,   \* channels obtained from the connection by _ensure_channel in this call
    decoder,      \* RabbitFlow.decoder is set
    validator,    \* RabbitFlow.validator is set
    processor,    \* RabbitFlow.processor is set
    reg,          \* the registration call in progress and the components it still sets up
    regResult,    \* the last registration call and how it ended
    connectionClosed,  \* RabbitClient.connection.is_closed
    runState,     \* where run() is
    consumers,    \* delivery handlers subscribed on RabbitClient.channel
    queueMsgs,    \* messages waiting in the broker's queues, in arrival order
    handled,      \* the deliveries handled so far and what the handler did with each
    peer          \* a second provisioner, on a connection of its own: where its setup() is

brokerVars == <<exchanges, ebindings, queues, qbindings>>
appVars == <<decoder, validator, processor, reg, regResult, connectionClosed, runState,
             consumers, queueMsgs, handled, peer>>
vars == <<exchanges, ebindings, queues, qbindings, faultBudget, comp, channel, isClosed,
          pc, result, error, callNo, ops, startBroker, prevCall, reacquired,
          decoder, validator, processor, reg, regResult, connectionClosed, runState,
          consumers, queueMsgs, handled, peer>>

(***************************************************************************)
(* Bounds.                                                                 *)
(***************************************************************************)
MaxFaults == 1   \* transient closures the broker injects in one behaviour
MaxCalls == 2    \* setup() calls on one component
MaxMessages == 2 \* messages placed in the queues in one behaviour
MaxCallFaults == 3 \* closures a hostile broker injects: every step of one call

(***************************************************************************)
(* Names and configuration records.                                        *)
(***************************************************************************)
FANOUT == "fanout"
TOPIC == "topic"
ExchangeTypes == {FANOUT, TOPIC}

ExchangeConfig(name, type) == [name |-> name, type |-> type]

AppName == "app"

\* RabbitFlow._get_default_names
default_names ==
    [decodification |-> [fanout |-> AppName \o ".raw.fanout",
                         topic  |-> AppName \o ".raw.topic",
                         queue  |-> AppName \o ".decodification.queue"],
     validation     |-> [fanout |-> AppName \o ".decoded.fanout",
                         topic  |-> AppName \o ".decoded.topic",
                         queue  |-> AppName \o ".validation.queue"],
     processing     |-> [fanout |-> AppName \o ".validated.fanout",
                         topic  |-> AppName \o ".validated.topic",
                         queue  |-> AppName \o ".processing.queue"]]

NoComp == [cls |-> "none", name |-> "", source |-> ExchangeConfig("", ""),
           dest |-> ExchangeConfig("", ""), topic |-> "", queue |-> "", routing_key |-> ""]

\* ExchangePair.__init__(channel, name, source_type, dest_type)
NewExchangePair(name, source_type, dest_type) ==
    [cls |-> "ExchangePair", name |-> name,
     source |-> ExchangeConfig(name \o "." \o source_type, source_type),
     dest |-> ExchangeConfig(name \o "." \o dest_type, dest_type),
     topic |-> "", queue |-> "", routing_key |-> ""]

\* FanoutTopicPair.__init__(channel, name)
FanoutTopicPair(name) == NewExchangePair(name, FANOUT, TOPIC)

\* TopicQueuePair.__init__(channel, name, queue_name, routing_key="")
TopicQueuePair(name, queue_name, routing_key) ==
    [cls |-> "TopicQueuePair", name |-> name,
     source |-> ExchangeConfig("", ""), dest |-> ExchangeConfig("", ""),
     topic |-> name \o ".topic", queue |-> queue_name, routing_key |-> routing_key]

(***************************************************************************)
(* The broker (IMessageBroker, section 6 of the specification).            *)
(***************************************************************************)
Broker == [exchanges |-> exchanges, ebindings |-> ebindings,
           queues |-> queues, qbindings |-> qbindings]

ExchangeExists(name) == \E e \in exchanges : e.name = name
ExchangeKind(name) == (CHOOSE e \in exchanges : e.name = name).type

Binding(source, destination, routing_key) ==
    [source |-> source, destination |-> destination, routing_key |-> routing_key]
QBinding(exchange, queue, routing_key) ==
    [exchange |-> exchange, queue |-> queue, routing_key |-> routing_key]

\* declareExchange(name, kind, durable, passive=true) -> OK | NotFound | Conflict
PassiveDeclareReply(name, type) ==
    IF ~ExchangeExists(name) THEN "NOT_FOUND"
    ELSE IF ExchangeKind(name) = type THEN "OK" ELSE "PRECONDITION_FAILED"

\* declareExchange(name, kind, durable, passive=false) -> OK | Conflict
DeclareReply(name, type) ==
    IF ExchangeExists(name) /\ ExchangeKind(name) # type THEN "PRECONDITION_FAILED" ELSE "OK"

\* bindExchanges(source, destination, routingKey) -> OK | AlreadyBound; a missing
\* endpoint is a NOT_FOUND channel error.
BindReplies(source, destination, routing_key) ==
    IF ~ExchangeExists(source) \/ ~ExchangeExists(destination) THEN {"NOT_FOUND"}
    ELSE IF Binding(source, destination, routing_key) \in ebindings
         THEN {"OK", "ALREADY_BOUND"}
         ELSE {"OK"}

\* declareQueue(name, durable, passive=true) -> OK | NotFound
QueuePassiveReply(queue) == IF queue \in queues THEN "OK" ELSE "NOT_FOUND"

\* bindQueue(queue, exchange, routingKey) -> OK | AlreadyBound
QueueBindReplies(exchange, queue, routing_key) ==
    IF ~ExchangeExists(exchange) \/ queue \notin queues THEN {"NOT_FOUND"}
    ELSE IF QBinding(exchange, queue, routing_key) \in qbindings
         THEN {"OK", "ALREADY_BOUND"}
         ELSE {"OK"}

\* What the broker may answer: what its state dictates, or, while it still has
\* transient faults to inject, a channel closure for an unrelated reason.
Replies(natural) == IF faultBudget > 0 THEN natural \cup {"CHANNEL_ERROR"} ELSE natural


(***************************************************************************)
(* MessageInfrastructure: the channel handle and _verify_exchange.         *)
(***************************************************************************)
Chan == [handle |-> channel, closed |-> isClosed, acquired |-> reacquired]

\* pika: the broker's channel error closes the channel the operation was issued on
ClosedByBroker(ch) == [ch EXCEPT !.closed[ch.handle] = TRUE]

\* _ensure_channel that keeps the closed handle
EnsureChannelKeepsClosed(ch) == ch

\* _ensure_channel that opens two channels for one closed handle
EnsureChannelTwice(ch) ==
    IF ch.closed[ch.handle]
    THEN [handle |-> "fresh", closed |-> [ch.closed EXCEPT !.fresh = FALSE],
          acquired |-> ch.acquired + 2]
    ELSE ch

\* MessageInfrastructure._ensure_channel
EnsureChannel(ch) ==
    IF ch.closed[ch.handle]
    THEN [handle |-> "fresh", closed |-> [ch.closed EXCEPT !.fresh = FALSE],
          acquired |-> ch.acquired + 1]
    ELSE ch

\* _verify_exchange that reads every closure other than NOT_FOUND as a confirmation
VerifyExchangeTrusting(reply, type_) ==
    IF reply = "NOT_FOUND" THEN [exists |-> FALSE, actual_type |-> "none"]
    ELSE [exists |-> TRUE, actual_type |-> type_]

\* _verify_exchange that reads every closure as "the exchange does not exist"
VerifyExchangeAbsentOnClosure(reply, type_) ==
    IF reply = "OK" THEN [exists |-> TRUE, actual_type |-> type_]
    ELSE [exists |-> FALSE, actual_type |-> "none"]

\* MessageInfrastructure._verify_exchange: the (exists, actual_type) it returns
\* for the broker's reply to the passive declaration
VerifyExchange(reply, type_) ==
    IF reply = "OK" THEN [exists |-> TRUE, actual_type |-> type_]
    ELSE IF reply = "NOT_FOUND" THEN [exists |-> FALSE, actual_type |-> "none"]
    ELSE [exists |-> TRUE, actual_type |-> "unknown"]

\* _verify_exchange without its call of _ensure_channel
ChanAfterVerifyNoEnsure(reply) == IF reply = "OK" THEN Chan ELSE ClosedByBroker(Chan)

\* the channel after _verify_exchange: untouched on OK, else closed by the
\* broker and replaced by _ensure_channel
ChanAfterVerify(reply) == IF reply = "OK" THEN Chan ELSE EnsureChannel(ClosedByBroker(Chan))

\* the channel after a broker error nobody handles with _ensure_channel
ChanAfterUnhandled(reply) == IF reply = "OK" THEN Chan ELSE ClosedByBroker(Chan)

Op(op, name, reply) == [op |-> op, name |-> name, reply |-> reply]
Idle == [at |-> "idle", i |-> 0]
At(at, i) == [at |-> at, i |-> i]

\* one broker round trip of setup() and the code up to the next one
Step(op, ch, nextPc, res, err) ==
    /\ ops' = Append(ops, op)
    /\ channel' = ch.handle
    /\ isClosed' = ch.closed
    /\ reacquired' = ch.acquired
    /\ faultBudget' = IF op.reply = "CHANNEL_ERROR" THEN faultBudget - 1 ELSE faultBudget
    /\ pc' = nextPc
    /\ result' = res
    /\ error' = err
    /\ UNCHANGED <<comp, callNo, startBroker, prevCall>>
    /\ UNCHANGED appVars

\* an operation on a handle that is already closed: pika raises
\* ChannelWrongStateError locally, which only setup()'s "except Exception" catches
WrongState(op, name) ==
    /\ Step(Op(op, name, "CHANNEL_WRONG_STATE"), Chan, Idle, "error", "ChannelWrongStateError")
    /\ UNCHANGED brokerVars

(***************************************************************************)
(* ExchangePair.setup                                                      *)
(***************************************************************************)
Config(i) == IF i = 1 THEN comp.source ELSE comp.dest

\* a setup() that binds as soon as one exchange is settled
AfterExchangeBindsAtOnce(i) == At("bind", 0)

\* the for loop: after [self.source, self.dest][i] comes the next config or the bind
AfterExchange(i) == IF i = 1 THEN At("verify", 2) ELSE At("bind", 0)

\* lines 100-110: _verify_exchange and the branch on its result
PairVerify ==
    /\ pc.at = "verify"
    /\ LET config == Config(pc.i) IN
       IF isClosed[channel] THEN WrongState("passive_declare", config.name)
       ELSE \E reply \in Replies({PassiveDeclareReply(config.name, config.type)}) :
            LET v == VerifyExchange(reply, config.type)
                op == Op("passive_declare", config.name, reply)
            IN /\ IF v.exists
                  THEN IF v.actual_type = config.type
                       THEN Step(op, ChanAfterVerify(reply), AfterExchange(pc.i), result, error)
                       ELSE Step(op, ChanAfterVerify(reply), Idle, "error", "wrong type")
                  ELSE Step(op, ChanAfterVerify(reply), At("declare", pc.i), result, error)
               /\ UNCHANGED brokerVars

\* lines 111-115: the real declaration
PairDeclare ==
    /\ pc.at = "declare"
    /\ LET config == Config(pc.i) IN
       IF isClosed[channel] THEN WrongState("declare", config.name)
       ELSE \E reply \in Replies({DeclareReply(config.name, config.type)}) :
            LET op == Op("declare", config.name, reply) IN
            IF reply = "OK"
            THEN /\ exchanges' = exchanges \cup {ExchangeConfig(config.name, config.type)}
                 /\ Step(op, Chan, AfterExchange(pc.i), result, error)
                 /\ UNCHANGED <<ebindings, queues, qbindings>>
            ELSE /\ Step(op, ChanAfterUnhandled(reply), Idle, "error", "ChannelClosedByBroker")
                 /\ UNCHANGED brokerVars

\* exchange_unbind called in the place of exchange_bind
ExchangeUnbind(source, destination) == ebindings \ {Binding(source, destination, "#")}

\* the broker's bindings after a successful exchange_bind(source, destination, "#")
ExchangeBind(source, destination) == ebindings \cup {Binding(source, destination, "#")}

\* _create_binding that lets the channel closure through
CreateBindingStrict(reply) ==
    [raised |-> reply # "OK", ch |-> IF reply = "OK" THEN Chan ELSE ClosedByBroker(Chan)]

\* ExchangePair._create_binding: what the call does with the broker's reply to
\* exchange_bind. Every ChannelClosedByBroker is logged as "binding already
\* exists" and followed by _ensure_channel; nothing is raised.
CreateBinding(reply) ==
    [raised |-> FALSE,
     ch |-> IF reply = "OK" THEN Chan ELSE EnsureChannel(ClosedByBroker(Chan))]

\* line 117-118: _create_binding and the end of setup
PairBind ==
    /\ pc.at = "bind"
    /\ IF isClosed[channel] THEN WrongState("bind", comp.source.name)
       ELSE \E reply \in Replies(BindReplies(comp.source.name, comp.dest.name, "#")) :
            LET op == Op("bind", comp.source.name, reply)
                b == CreateBinding(reply)
            IN /\ IF b.raised
                  THEN Step(op, b.ch, Idle, "error", "ChannelClosedByBroker")
                  ELSE Step(op, b.ch, Idle, "ok", "none")
               /\ ebindings' = IF reply = "OK"
                               THEN ExchangeBind(comp.source.name, comp.dest.name)
                               ELSE ebindings
               /\ UNCHANGED <<exchanges, queues, qbindings>>

(***************************************************************************)
(* TopicQueuePair.setup                                                    *)
(***************************************************************************)
\* lines 153-154
TQVerify ==
    /\ pc.at = "tq_verify"
    /\ IF isClosed[channel] THEN WrongState("passive_declare", comp.topic)
       ELSE \E reply \in Replies({PassiveDeclareReply(comp.topic, TOPIC)}) :
            LET v == VerifyExchange(reply, TOPIC)
                op == Op("passive_declare", comp.topic, reply)
            IN /\ IF v.exists
                  THEN Step(op, ChanAfterVerify(reply), At("tq_queue_passive", 0), result, error)
                  ELSE Step(op, ChanAfterVerify(reply), At("tq_declare", 0), result, error)
               /\ UNCHANGED brokerVars

\* lines 155-159
TQDeclare ==
    /\ pc.at = "tq_declare"
    /\ IF isClosed[channel] THEN WrongState("declare", comp.topic)
       ELSE \E reply \in Replies({DeclareReply(comp.topic, TOPIC)}) :
            LET op == Op("declare", comp.topic, reply) IN
            IF reply = "OK"
            THEN /\ exchanges' = exchanges \cup {ExchangeConfig(comp.topic, TOPIC)}
                 /\ Step(op, Chan, At("tq_queue_passive", 0), result, error)
                 /\ UNCHANGED <<ebindings, queues, qbindings>>
            ELSE /\ Step(op, ChanAfterUnhandled(reply), Idle, "error", "ChannelClosedByBroker")
                 /\ UNCHANGED brokerVars

\* lines 162-166: the passive queue declaration; any channel closure is read as
\* "the queue does not exist"
TQQueuePassive ==
    /\ pc.at = "tq_queue_passive"
    /\ IF isClosed[channel] THEN WrongState("queue_passive", comp.queue)
       ELSE \E reply \in Replies({QueuePassiveReply(comp.queue)}) :
            LET op == Op("queue_passive", comp.queue, reply) IN
            /\ IF reply = "OK"
               THEN Step(op, Chan, At("tq_bind", 0), result, error)
               ELSE Step(op, EnsureChannel(ClosedByBroker(Chan)), At("tq_queue_declare", 0),
                         result, error)
            /\ UNCHANGED brokerVars

\* line 167: the real queue declaration, inside the except block
TQQueueDeclare ==
    /\ pc.at = "tq_queue_declare"
    /\ IF isClosed[channel] THEN WrongState("queue_declare", comp.queue)
       ELSE \E reply \in Replies({"OK"}) :
            LET op == Op("queue_declare", comp.queue, reply) IN
            IF reply = "OK"
            THEN /\ queues' = queues \cup {comp.queue}
                 /\ Step(op, Chan, At("tq_bind", 0), result, error)
                 /\ UNCHANGED <<exchanges, ebindings, qbindings>>
            ELSE /\ Step(op, ChanAfterUnhandled(reply), Idle, "error", "ChannelClosedByBroker")
                 /\ UNCHANGED brokerVars

\* lines 171-180: the queue bind and the end of setup
TQBind ==
    /\ pc.at = "tq_bind"
    /\ IF isClosed[channel] THEN WrongState("queue_bind", comp.queue)
       ELSE \E reply \in Replies(QueueBindReplies(comp.topic, comp.queue, comp.routing_key)) :
            LET op == Op("queue_bind", comp.queue, reply) IN
            IF reply = "OK"
            THEN /\ qbindings' = qbindings \cup {QBinding(comp.topic, comp.queue, comp.routing_key)}
                 /\ Step(op, Chan, Idle, "ok", "none")
                 /\ UNCHANGED <<exchanges, ebindings, queues>>
            ELSE /\ Step(op, EnsureChannel(ClosedByBroker(Chan)), Idle, "ok", "none")
                 /\ UNCHANGED brokerVars

(***************************************************************************)
(* Callers of the provisioning components.                                 *)
(***************************************************************************)
PairNames == {AppName \o ".raw", AppName \o ".decoded"}
DefaultRoutingKey == ""

\* the first broker operation of cls.setup
FirstStep(cls) == IF cls = "ExchangePair" THEN At("verify", 1) ELSE At("tq_verify", 0)

\* a component is constructed on the client's channel handle
\* (MessageInfrastructure.__init__: self.channel = channel)
Construct(c) ==
    /\ comp' = c
    /\ channel' = "rabbit"
    /\ callNo' = 0
    /\ result' = "none"
    /\ error' = "none"
    /\ prevCall' = "none"
    /\ ops' = << >>
    /\ reacquired' = 0
    /\ startBroker' = Broker
    /\ UNCHANGED <<exchanges, ebindings, queues, qbindings, faultBudget, isClosed, pc>>

\* setup() is entered on the component comp
Enter ==
    /\ pc' = FirstStep(comp.cls)
    /\ callNo' = callNo + 1
    /\ prevCall' = result
    /\ result' = "none"
    /\ error' = "none"
    /\ ops' = << >>
    /\ reacquired' = 0
    /\ startBroker' = Broker
    /\ UNCHANGED <<exchanges, ebindings, queues, qbindings, faultBudget, comp, channel, isClosed>>

\* a component is constructed on the client's channel handle and set up at once:
\* X(self.rabbit.channel, ...).setup()
Call(c) ==
    /\ comp' = c
    /\ channel' = "rabbit"
    /\ callNo' = 1
    /\ result' = "none"
    /\ error' = "none"
    /\ prevCall' = "none"
    /\ ops' = << >>
    /\ reacquired' = 0
    /\ startBroker' = Broker
    /\ pc' = FirstStep(c.cls)
    /\ UNCHANGED <<exchanges, ebindings, queues, qbindings, faultBudget, isClosed>>

NoReg == [op |-> "none", todo |-> << >>, output |-> ""]

\* the program is between calls: no setup() and no registration is running and
\* run() has not been called
Between == pc = Idle /\ reg = NoReg /\ runState = "not_started"

\* a program that uses the provisioning components directly builds one
NewFanoutTopicPair ==
    /\ Between
    /\ comp = NoComp
    /\ \E name \in PairNames : Construct(FanoutTopicPair(name))
    /\ UNCHANGED appVars

NewTopicQueuePair ==
    /\ Between
    /\ comp = NoComp
    /\ \E name \in PairNames :
           Construct(TopicQueuePair(name, name \o ".queue", DefaultRoutingKey))
    /\ UNCHANGED appVars

Setup ==
    /\ Between
    /\ comp.cls # "none"
    /\ regResult.op = "none"
    /\ callNo < MaxCalls
    /\ Enter
    /\ UNCHANGED appVars

(***************************************************************************)
(* RabbitFlow: the registrations of app.py.                                *)
(***************************************************************************)
\* ExchangePair(self.rabbit.channel, ExchangePairConfig(fanout_name, topic_name))
ExchangePairOf(fanout_name, topic_name) ==
    [cls |-> "ExchangePair", name |-> "",
     source |-> ExchangeConfig(fanout_name, FANOUT),
     dest |-> ExchangeConfig(topic_name, TOPIC),
     topic |-> "", queue |-> "", routing_key |-> ""]

\* QueueBinding(self.rabbit.channel, QueueConfig(exchange_name, queue_name))
QueueBindingOf(exchange_name, queue_name) ==
    [cls |-> "TopicQueuePair", name |-> "",
     source |-> ExchangeConfig("", ""), dest |-> ExchangeConfig("", ""),
     topic |-> exchange_name, queue |-> queue_name, routing_key |-> DefaultRoutingKey]

\* the components register_decoder sets up, in order (no names given: the defaults)
DecoderComponents ==
    << ExchangePairOf(default_names.decodification.fanout, default_names.decodification.topic),
       QueueBindingOf(default_names.decodification.topic, default_names.decodification.queue),
       ExchangePairOf(default_names.validation.fanout, default_names.validation.topic) >>

\* the components register_validator sets up, in order
ValidatorComponents ==
    << ExchangePairOf(default_names.validation.fanout, default_names.validation.topic),
       ExchangePairOf(default_names.processing.fanout, default_names.processing.topic),
       QueueBindingOf(default_names.validation.topic, default_names.validation.queue) >>

\* the component register_processor sets up
ProcessorComponents ==
    << QueueBindingOf(default_names.processing.topic, default_names.processing.queue) >>

\* a register_* call is entered and reaches its first setup()
RegisterStart(op, components, output) ==
    /\ Between
    /\ comp = NoComp \/ regResult.op # "none"
    /\ reg' = [op |-> op, todo |-> Tail(components), output |-> output]
    /\ Call(Head(components))
    /\ UNCHANGED <<peer, decoder, validator, processor, regResult, connectionClosed, runState,
                   consumers, queueMsgs, handled>>

RegisterDecoder == RegisterStart("decoder", DecoderComponents, "")
RegisterValidator == RegisterStart("validator", ValidatorComponents, "")
RegisterProcessor == RegisterStart("processor", ProcessorComponents, "")

\* the registration goes on after a setup() that returned: the next component
RegisterNext ==
    /\ pc = Idle
    /\ reg.op # "none"
    /\ result = "ok"
    /\ reg.todo # << >>
    /\ reg' = [reg EXCEPT !.todo = Tail(reg.todo)]
    /\ Call(Head(reg.todo))
    /\ UNCHANGED <<peer, decoder, validator, processor, regResult, connectionClosed, runState,
                   consumers, queueMsgs, handled>>

\* setup() raised: the exception leaves the register_* call
RegisterRaises ==
    /\ pc = Idle
    /\ reg.op # "none"
    /\ result = "error"
    /\ reg' = NoReg
    /\ regResult' = [op |-> reg.op, outcome |-> "raised"]
    /\ UNCHANGED <<peer, decoder, validator, processor, connectionClosed, runState,
                   consumers, queueMsgs, handled>>
    /\ UNCHANGED <<exchanges, ebindings, queues, qbindings, faultBudget, comp, channel,
                   isClosed, pc, result, error, callNo, ops, startBroker, prevCall, reacquired>>

\* the last lines of register_decoder / register_validator / register_processor:
\* the component is instantiated and kept; nothing is subscribed
RegisterDone ==
    /\ pc = Idle
    /\ reg.op \in {"decoder", "validator", "processor"}
    /\ result = "ok"
    /\ reg.todo = << >>
    /\ decoder' = (decoder \/ reg.op = "decoder")
    /\ validator' = (validator \/ reg.op = "validator")
    /\ processor' = (processor \/ reg.op = "processor")
    /\ reg' = NoReg
    /\ regResult' = [op |-> reg.op, outcome |-> "ok"]
    /\ UNCHANGED <<peer, connectionClosed, runState, consumers, queueMsgs, handled>>
    /\ UNCHANGED <<exchanges, ebindings, queues, qbindings, faultBudget, comp, channel,
                   isClosed, pc, result, error, callNo, ops, startBroker, prevCall, reacquired>>

(***************************************************************************)
(* The stage router (section 4.2 of the specification): registerStage and  *)
(* the per-message handler.                                                *)
(***************************************************************************)
StageName == "raw"
OutputStages == {"", "decoded"}   \* "" is: no output stage
StageQueue == AppName \o "." \o StageName \o ".queue"
SuccessFanout(output) == AppName \o "." \o output \o ".success.fanout"
FailureFanout(output) == AppName \o "." \o output \o ".failure.fanout"

\* registerStage steps 1-3: the components to provision
StageComponents(output) ==
    << FanoutTopicPair(AppName \o "." \o StageName),
       TopicQueuePair(AppName \o "." \o StageName, StageQueue, "#") >>
    \o IF output = "" THEN << >>
       ELSE << FanoutTopicPair(AppName \o "." \o output \o ".success"),
               FanoutTopicPair(AppName \o "." \o output \o ".failure") >>

RegisterStage ==
    /\ consumers = {}
    /\ \E output \in OutputStages : RegisterStart("stage", StageComponents(output), output)

\* registerStage step 4: the delivery handler is subscribed on the input queue,
\* without auto-acknowledgment; a closed channel cannot take a consumer
RegisterStageDone ==
    /\ pc = Idle
    /\ reg.op = "stage"
    /\ result = "ok"
    /\ reg.todo = << >>
    /\ consumers' = IF isClosed.rabbit THEN consumers
                    ELSE consumers \cup {[queue |-> StageQueue, output |-> reg.output,
                                          auto_ack |-> FALSE]}
    /\ reg' = NoReg
    /\ regResult' = [op |-> "stage", outcome |-> IF isClosed.rabbit THEN "raised" ELSE "ok"]
    /\ UNCHANGED <<peer, decoder, validator, processor, connectionClosed, runState, queueMsgs, handled>>
    /\ UNCHANGED <<exchanges, ebindings, queues, qbindings, faultBudget, comp, channel,
                   isClosed, pc, result, error, callNo, ops, startBroker, prevCall, reacquired>>

Bodies == {"hello"}
Placeholder == "Unknown error"
GenericReason == "Processor error"

Success(payload) == [success |-> TRUE, data |-> payload, error |-> "", raised |-> FALSE]
Failure(reason) == [success |-> FALSE, data |-> "", error |-> reason, raised |-> FALSE]
Raised == [success |-> FALSE, data |-> "", error |-> "", raised |-> TRUE]

\* what Processor.process may do with a body
ProcessOutcomes(body) == {Success(body), Success(""), Failure("bad"), Failure(""), Raised}

\* a Processor that raises counts as a Failure with a generic reason
HandlerResult(outcome) == IF outcome.raised THEN Failure(GenericReason) ELSE outcome

\* a handler that routes both outcomes to the failure exchange
HandlerPublishesAllToFailure(r, output) ==
    IF output = "" THEN << >>
    ELSE << [exchange |-> FailureFanout(output),
             body |-> IF r.success THEN r.data ELSE r.error] >>

\* the publishes the handler attempts for a result: at most one
HandlerPublishes(r, output) ==
    IF output = "" THEN << >>
    ELSE IF r.success
         THEN IF r.data # "" THEN << [exchange |-> SuccessFanout(output), body |-> r.data] >>
              ELSE << >>
         ELSE << [exchange |-> FailureFanout(output),
                  body |-> IF r.error = "" THEN Placeholder ELSE r.error] >>

\* a handler that acknowledges only what it could forward
HandlerAcksWhenPublished(tag, r, publishReply) ==
    IF publishReply = "CHANNEL_CLOSED" THEN << >> ELSE << tag >>

\* the acknowledgments the handler sends for a delivery: always its tag, once
HandlerAcks(tag, r, publishReply) == << tag >>

\* a handler that lets the Processor's exception through
HandlerEscapesWhenRaised(outcome, publishReply) == outcome.raised

\* whether an error leaves the handler into the consume loop: never
HandlerEscapes(outcome, publishReply) == FALSE

\* a client outside the program places a message in the queue of a stage
Produce ==
    /\ runState = "consuming"
    /\ Len(queueMsgs) + Len(handled) < MaxMessages
    /\ \E c \in consumers, body \in Bodies :
           /\ c.queue \in queues
           /\ queueMsgs' = Append(queueMsgs, [queue |-> c.queue, body |-> body])
    /\ UNCHANGED <<peer, decoder, validator, processor, reg, regResult, connectionClosed, runState,
                   consumers, handled>>
    /\ UNCHANGED <<exchanges, ebindings, queues, qbindings, faultBudget, comp, channel,
                   isClosed, pc, result, error, callNo, ops, startBroker, prevCall, reacquired>>

\* consumers live on RabbitClient.channel; a channel the broker closed has none
ActiveConsumers == IF isClosed.rabbit THEN {} ELSE consumers

\* a run() that goes to start_consuming without looking at the components
RunOutcomeUnchecked(components, active) ==
    IF active = {} THEN "returned" ELSE "consuming"

\* where run() goes from its first lines: "Missing required components" is
\* logged and run() returns when all([decoder, validator, processor]) is false;
\* else start_consuming, which returns at once when the channel has no consumer
RunOutcome(components, active) ==
    IF ~(components[1] /\ components[2] /\ components[3]) THEN "refused"
    ELSE IF active = {} THEN "returned"
    ELSE "consuming"

\* RabbitFlow.run up to the point where it returns or blocks in start_consuming
Run ==
    /\ Between
    /\ runState' = RunOutcome(<<decoder, validator, processor>>, ActiveConsumers)
    /\ UNCHANGED <<peer, decoder, validator, processor, reg, regResult, connectionClosed,
                   consumers, queueMsgs, handled>>
    /\ UNCHANGED <<exchanges, ebindings, queues, qbindings, faultBudget, comp, channel,
                   isClosed, pc, result, error, callNo, ops, startBroker, prevCall, reacquired>>

\* publish(exchange, routingKey, body) -> OK | ChannelClosed, for each attempt
PublishReplies(publishes) == IF publishes = << >> THEN {"none"} ELSE {"OK", "CHANNEL_CLOSED"}

\* index of the first waiting message of queue q, 0 when there is none
FirstOf(q) ==
    IF \E i \in 1..Len(queueMsgs) : queueMsgs[i].queue = q
    THEN CHOOSE i \in 1..Len(queueMsgs) :
             /\ queueMsgs[i].queue = q
             /\ \A j \in 1..(i - 1) : queueMsgs[j].queue # q
    ELSE 0

Remove(seq, i) == [j \in 1..(Len(seq) - 1) |-> IF j < i THEN seq[j] ELSE seq[j + 1]]

\* the consume loop delivers the next message of a subscribed queue and the
\* handler runs to completion: process, publish, acknowledge
Deliver ==
    /\ runState = "consuming"
    /\ \E c \in consumers :
       /\ FirstOf(c.queue) # 0
       /\ \E outcome \in ProcessOutcomes(queueMsgs[FirstOf(c.queue)].body) :
          \E publishReply \in PublishReplies(HandlerPublishes(HandlerResult(outcome), c.output)) :
          LET tag == Len(handled) + 1
              r == HandlerResult(outcome)
              escapes == HandlerEscapes(outcome, publishReply)
          IN /\ handled' = Append(handled,
                    [tag |-> tag, queue |-> c.queue, output |-> c.output,
                     body |-> queueMsgs[FirstOf(c.queue)].body, outcome |-> outcome,
                     publishes |-> HandlerPublishes(r, c.output),
                     publishReply |-> publishReply,
                     acks |-> HandlerAcks(tag, r, publishReply)])
             /\ queueMsgs' = Remove(queueMsgs, FirstOf(c.queue))
             /\ runState' = IF escapes THEN "failed" ELSE runState
             /\ connectionClosed' = IF escapes THEN TRUE ELSE connectionClosed
    /\ UNCHANGED <<peer, decoder, validator, processor, reg, regResult, consumers>>
    /\ UNCHANGED <<exchanges, ebindings, queues, qbindings, faultBudget, comp, channel,
                   isClosed, pc, result, error, callNo, ops, startBroker, prevCall, reacquired>>

\* a close() that leaves the connection as it is
RabbitClientCloseSkipped(closed) == closed

\* RabbitClient.close: connection.is_closed after it (an open connection is
\* closed, a closed one is left alone)
RabbitClientClose(closed) == IF ~closed THEN TRUE ELSE closed

\* run(): except KeyboardInterrupt: close and return
Interrupt ==
    /\ runState = "consuming"
    /\ runState' = "interrupted"
    /\ connectionClosed' = RabbitClientClose(connectionClosed)
    /\ UNCHANGED <<peer, decoder, validator, processor, reg, regResult, consumers, queueMsgs, handled>>
    /\ UNCHANGED <<exchanges, ebindings, queues, qbindings, faultBudget, comp, channel,
                   isClosed, pc, result, error, callNo, ops, startBroker, prevCall, reacquired>>

\* run(): except Exception: close and re-raise (the connection failed under
\* start_consuming)
FatalError ==
    /\ runState = "consuming"
    /\ runState' = "failed"
    /\ connectionClosed' = RabbitClientClose(connectionClosed)
    /\ UNCHANGED <<peer, decoder, validator, processor, reg, regResult, consumers, queueMsgs, handled>>
    /\ UNCHANGED <<exchanges, ebindings, queues, qbindings, faultBudget, comp, channel,
                   isClosed, pc, result, error, callNo, ops, startBroker, prevCall, reacquired>>

(***************************************************************************)
(* A second provisioner: another process, on a connection and a channel of *)
(* its own, runs ExchangePair.setup for the same pair against the same     *)
(* broker. Each of its broker round trips is one step.                     *)
(***************************************************************************)
NoPeer == [at |-> "off", i |-> 0, result |-> "none", ops |-> << >>]
PeerReady == [at |-> "ready", i |-> 0, result |-> "none", ops |-> << >>]

clientVars == <<faultBudget, comp, channel, isClosed, pc, result, error, callNo, ops,
                startBroker, prevCall, reacquired, decoder, validator, processor, reg,
                regResult, connectionClosed, runState, consumers, queueMsgs, handled>>

\* one broker round trip of the peer's setup() and its code up to the next one
PeerStep(op, nextPc, res) ==
    [at |-> nextPc.at, i |-> nextPc.i, result |-> res, ops |-> Append(peer.ops, op)]

PeerFinished == peer.at = "idle" /\ peer.result # "none"

\* the peer enters setup() of a pair it built with the same name
PeerSetup ==
    /\ peer.at = "ready"
    /\ comp.cls = "ExchangePair"
    /\ peer' = [peer EXCEPT !.at = "verify", !.i = 1]
    /\ UNCHANGED brokerVars
    /\ UNCHANGED clientVars

\* lines 100-110 in the peer; after a NOT_FOUND its _ensure_channel gives it an
\* open channel again
PeerVerify ==
    /\ peer.at = "verify"
    /\ LET config == Config(peer.i)
           reply == PassiveDeclareReply(config.name, config.type)
           v == VerifyExchange(reply, config.type)
           op == Op("passive_declare", config.name, reply)
       IN peer' = IF v.exists
                  THEN IF v.actual_type = config.type
                       THEN PeerStep(op, AfterExchange(peer.i), "none")
                       ELSE PeerStep(op, Idle, "error")
                  ELSE PeerStep(op, At("declare", peer.i), "none")
    /\ UNCHANGED brokerVars
    /\ UNCHANGED clientVars

\* lines 111-115 in the peer
PeerDeclare ==
    /\ peer.at = "declare"
    /\ LET config == Config(peer.i)
           reply == DeclareReply(config.name, config.type)
           op == Op("declare", config.name, reply)
       IN /\ exchanges' = IF reply = "OK"
                          THEN exchanges \cup {ExchangeConfig(config.name, config.type)}
                          ELSE exchanges
          /\ peer' = IF reply = "OK" THEN PeerStep(op, AfterExchange(peer.i), "none")
                     ELSE PeerStep(op, Idle, "error")
    /\ UNCHANGED <<ebindings, queues, qbindings>>
    /\ UNCHANGED clientVars

\* lines 117-118 in the peer
PeerBind ==
    /\ peer.at = "bind"
    /\ \E reply \in BindReplies(comp.source.name, comp.dest.name, "#") :
           /\ peer' = PeerStep(Op("bind", comp.source.name, reply), Idle,
                               IF CreateBinding(reply).raised THEN "error" ELSE "ok")
           /\ ebindings' = IF reply = "OK"
                           THEN ExchangeBind(comp.source.name, comp.dest.name)
                           ELSE ebindings
    /\ UNCHANGED <<exchanges, queues, qbindings>>
    /\ UNCHANGED clientVars

(***************************************************************************)
(* Initial states: a connected client and a broker holding any well-formed *)
(* part of the topology.                                                   *)
(***************************************************************************)
KindChoices == {"absent", FANOUT, TOPIC}
ExSet(name, k) == IF k = "absent" THEN {} ELSE {ExchangeConfig(name, k)}

\* every state of the two exchanges of pair n and of the binding between them
AnyPairState(n) ==
    UNION { { [ex |-> ExSet(n \o ".fanout", k[1]) \cup ExSet(n \o ".topic", k[2]), eb |-> b] :
              b \in IF k[1] # "absent" /\ k[2] # "absent"
                    THEN {{}, {Binding(n \o ".fanout", n \o ".topic", "#")}}
                    ELSE {{}} } :
            k \in KindChoices \X KindChoices }

Established(n) ==
    [ex |-> {ExchangeConfig(n \o ".fanout", FANOUT), ExchangeConfig(n \o ".topic", TOPIC)},
     eb |-> {Binding(n \o ".fanout", n \o ".topic", "#")}]

\* queue q absent, present, or present and bound to an existing exchange
AnyQueueState(q, topic, ex) ==
    { [qs |-> {}, qb |-> {}], [qs |-> {q}, qb |-> {}] } \cup
    IF \E e \in ex : e.name = topic
    THEN { [qs |-> {q}, qb |-> {QBinding(topic, q, DefaultRoutingKey)}] }
    ELSE {}

\* the rest of the application's topology, as an earlier run of it left it
AppTopology ==
    [ex |-> Established(AppName \o ".decoded").ex \cup Established(AppName \o ".validated").ex,
     eb |-> Established(AppName \o ".decoded").eb \cup Established(AppName \o ".validated").eb,
     qs |-> {default_names.decodification.queue, default_names.validation.queue,
             default_names.processing.queue},
     qb |-> {QBinding(default_names.validation.topic, default_names.validation.queue,
                      DefaultRoutingKey),
             QBinding(default_names.processing.topic, default_names.processing.queue,
                      DefaultRoutingKey)}]

\* the output pairs of the stage, as an earlier run left them
OutputTopology ==
    [ex |-> Established(AppName \o ".decoded.success").ex
            \cup Established(AppName \o ".decoded.failure").ex,
     eb |-> Established(AppName \o ".decoded.success").eb
            \cup Established(AppName \o ".decoded.failure").eb,
     qs |-> {}, qb |-> {}]

Nothing == [ex |-> {}, eb |-> {}, qs |-> {}, qb |-> {}]

InitBroker ==
    \E a \in AnyPairState(AppName \o ".raw"),
       app \in {Nothing, AppTopology}, out \in {Nothing, OutputTopology} :
    \E q \in AnyQueueState(StageQueue, AppName \o ".raw.topic", a.ex) :
        /\ exchanges = a.ex \cup app.ex \cup out.ex
        /\ ebindings = a.eb \cup app.eb \cup out.eb
        /\ queues = q.qs \cup app.qs
        /\ qbindings = q.qb \cup app.qb

\* RabbitFlow.__init__ and RabbitClient.connect have run
InitClient ==
    /\ comp = NoComp
    /\ channel = "rabbit"
    /\ isClosed = [rabbit |-> FALSE, fresh |-> FALSE]
    /\ pc = Idle
    /\ result = "none"
    /\ error = "none"
    /\ callNo = 0
    /\ ops = << >>
    /\ startBroker = Broker
    /\ prevCall = "none"
    /\ reacquired = 0
    /\ decoder = FALSE
    /\ validator = FALSE
    /\ processor = FALSE
    /\ reg = NoReg
    /\ regResult = [op |-> "none", outcome |-> "none"]
    /\ connectionClosed = FALSE
    /\ runState = "not_started"
    /\ consumers = {}
    /\ queueMsgs = << >>
    /\ handled = << >>

\* the broker answers from its state alone
Init == InitBroker /\ InitClient /\ faultBudget = 0 /\ peer = NoPeer

\* the broker may also close the channel for a transient reason
InitFaulty == InitBroker /\ InitClient /\ faultBudget \in 0..MaxFaults /\ peer = NoPeer

\* two provisioners and a broker that answers from its state alone
InitConcurrent == InitBroker /\ InitClient /\ faultBudget = 0 /\ peer = PeerReady

Next ==
    \/ NewFanoutTopicPair
    \/ NewTopicQueuePair
    \/ Setup
    \/ PairVerify
    \/ PairDeclare
    \/ PairBind
    \/ TQVerify
    \/ TQDeclare
    \/ TQQueuePassive
    \/ TQQueueDeclare
    \/ TQBind
    \/ RegisterDecoder
    \/ RegisterValidator
    \/ RegisterProcessor
    \/ RegisterNext
    \/ RegisterRaises
    \/ RegisterDone
    \/ RegisterStage
    \/ RegisterStageDone
    \/ Produce
    \/ Run
    \/ Deliver
    \/ Interrupt
    \/ FatalError

\* the program provisions one exchange pair while the peer provisions the same
NextConcurrent ==
    \/ NewFanoutTopicPair
    \/ Setup
    \/ PairVerify
    \/ PairDeclare
    \/ PairBind
    \/ PeerSetup
    \/ PeerVerify
    \/ PeerDeclare
    \/ PeerBind

\* a broker that may answer any step of a call by closing the channel
InitHostile == InitBroker /\ InitClient /\ faultBudget \in 0..MaxCallFaults /\ peer = NoPeer

\* one broker round trip of the setup() call in progress
CallStep ==
    \/ PairVerify
    \/ PairDeclare
    \/ PairBind
    \/ TQVerify
    \/ TQDeclare
    \/ TQQueuePassive
    \/ TQQueueDeclare
    \/ TQBind

\* a program that uses the two provisioning components directly
NextProvisioning ==
    \/ NewFanoutTopicPair
    \/ NewTopicQueuePair
    \/ Setup
    \/ CallStep

Spec == Init /\ [][Next]_vars
SpecFaulty == InitFaulty /\ [][Next]_vars
SpecConcurrent == InitConcurrent /\ [][NextConcurrent]_vars

\* setup() is sequential code over blocking calls that return: a call in
\* progress takes its next step
SpecHostile == InitHostile /\ [][NextProvisioning]_vars /\ WF_vars(CallStep)


(***************************************************************************)
(* Properties.                                                             *)
(***************************************************************************)
IsPairCall == comp.cls = "ExchangePair" /\ callNo >= 1
Finished == pc = Idle /\ result # "none"

\* the call's first operation found its channel handle open
StartedOpen ==
    IF ops = << >> THEN ~isClosed[channel] ELSE ops[1].reply # "CHANNEL_WRONG_STATE"

\* both exchanges of the pair exist with the declared kinds and are bound with "#"
PairEstablished ==
    /\ ExchangeConfig(comp.source.name, comp.source.type) \in exchanges
    /\ ExchangeConfig(comp.dest.name, comp.dest.type) \in exchanges
    /\ Binding(comp.source.name, comp.dest.name, "#") \in ebindings

\* when the call started, one of the two names was held by an exchange of another kind
ConflictAtStart ==
    \E config \in {comp.source, comp.dest} :
        \E e \in startBroker.exchanges : e.name = config.name /\ e.type # config.type

OpsOf(kind) == {i \in 1..Len(ops) : ops[i].op = kind}
Closures == {i \in 1..Len(ops) : ops[i].reply \notin {"OK", "CHANNEL_WRONG_STATE"}}

\* C1: a second ExchangePair.setup right after a successful first one changes
\* nothing in the broker (it issues no real declaration, and the exchanges and
\* bindings stay as the first run left them) and succeeds with the same pair,
\* bound with "#".
C1_SecondSetupIdempotent ==
    (IsPairCall /\ callNo >= 2 /\ prevCall = "ok") =>
        /\ Broker = startBroker
        /\ OpsOf("declare") = {}
        /\ Finished => (result = "ok" /\ PairEstablished)

C1_Witness ==
    /\ IsPairCall /\ callNo = 2 /\ prevCall = "ok" /\ Finished /\ result = "ok"
    /\ Len(ops) = 3 /\ ops[3].op = "bind"

\* C2: whenever ExchangePair.setup returns successfully, both exchanges exist
\* with their declared kinds and the "#" binding between them exists, whatever
\* the broker answered during the call.
C2_SuccessMeansEstablished ==
    (IsPairCall /\ Finished /\ result = "ok") => PairEstablished

\* C3: when one of the two derived names is held by an exchange of another kind,
\* ExchangePair.setup fails with the wrong-type error, checks no name twice and
\* attempts no bind.
C3_ConflictDetected ==
    (IsPairCall /\ ConflictAtStart) =>
        /\ OpsOf("bind") = {}
        /\ \A i, j \in OpsOf("passive_declare") : ops[i].name = ops[j].name => i = j
        /\ Finished => (result = "error" /\ (StartedOpen => error = "wrong type"))

C3_Witness ==
    /\ IsPairCall /\ ConflictAtStart /\ Finished /\ error = "wrong type"
    /\ Len(ops) >= 2 /\ ops[Len(ops)].name = comp.dest.name

\* C4: when exactly one step of an ExchangePair.setup call met a channel closure
\* (and no name is held by an exchange of another kind), the call has obtained
\* one fresh channel and returns successfully with the pair established.
C4_RecoversFromOneClosure ==
    (IsPairCall /\ Finished /\ StartedOpen /\ ~ConflictAtStart /\ Cardinality(Closures) = 1) =>
        /\ result = "ok"
        /\ PairEstablished
        /\ reacquired = 1

\* C5: from any broker state holding a subset of the pair's fanout exchange,
\* topic exchange and binding with the declared kinds, ExchangePair.setup,
\* entered with an open channel, succeeds and ends with all three present.
C5_ToleratesPartialState ==
    (IsPairCall /\ Finished /\ StartedOpen /\ ~ConflictAtStart) =>
        (result = "ok" /\ PairEstablished)

C5_Witness ==
    /\ IsPairCall /\ Finished /\ result = "ok" /\ PairEstablished
    /\ Cardinality({e \in startBroker.exchanges : e.name \in {comp.source.name, comp.dest.name}}) = 1

\* C6: no step of any operation removes an exchange, a queue or a binding from
\* the broker or changes the kind of an exchange: what the broker held before the
\* step it holds after it, and an exchange name keeps a single kind.
C6_NonDestructive ==
    [][/\ exchanges \subseteq exchanges'
       /\ ebindings \subseteq ebindings'
       /\ queues \subseteq queues'
       /\ qbindings \subseteq qbindings'
       /\ \A e, f \in exchanges' : e.name = f.name => e = f]_vars

C6_Witness ==
    /\ Finished /\ result = "ok"
    /\ startBroker.ebindings # {}
    /\ startBroker.exchanges # exchanges
    /\ startBroker.exchanges \subseteq exchanges
    /\ startBroker.ebindings \subseteq ebindings
    /\ ebindings # startBroker.ebindings


QueueOf(op) ==
    IF op = "decoder" THEN default_names.decodification.queue
    ELSE IF op = "validator" THEN default_names.validation.queue
    ELSE default_names.processing.queue

\* C10: when register_decoder, register_validator or register_processor has
\* completed successfully, a delivery handler without auto-acknowledgment is
\* subscribed on that stage's queue.
C10_RegistrationSubscribes ==
    (regResult.outcome = "ok" /\ regResult.op \in {"decoder", "validator", "processor"}) =>
        \E c \in consumers : c.queue = QueueOf(regResult.op) /\ ~c.auto_ack

Registrations == {"decoder", "validator", "processor"}

\* a step of setup() the broker (or the closed handle) answered with an error that
\* is not the step's expected negative answer: not-found for a passive check,
\* already-bound for a bind. A passive queue check is decided by the real
\* declaration that follows it.
FailedStep(o) ==
    \/ o.reply = "CHANNEL_WRONG_STATE"
    \/ o.op = "passive_declare" /\ o.reply \notin {"OK", "NOT_FOUND"}
    \/ o.op \in {"declare", "queue_declare"} /\ o.reply # "OK"
    \/ o.op \in {"bind", "queue_bind"} /\ o.reply \notin {"OK", "ALREADY_BOUND"}

\* C11: when a provisioning step inside register_decoder, register_validator or
\* register_processor has failed, the register call has raised instead of
\* completing (so it has not set the stage's component), and run() is consuming
\* only when every stage was registered successfully.
C11_RegistrationAborts ==
    /\ (regResult.op \in Registrations /\ reg = NoReg /\ pc = Idle
        /\ \E i \in 1..Len(ops) : FailedStep(ops[i]))
           => regResult.outcome = "raised"
    /\ runState = "consuming" => (decoder /\ validator /\ processor)

\* the names of the input topology of the stage a register_* call registers
InputOf(op) ==
    IF op = "decoder" THEN default_names.decodification
    ELSE IF op = "validator" THEN default_names.validation
    ELSE default_names.processing

\* C12: after a successful register_decoder, register_validator or
\* register_processor, the stage's input fanout and topic exchanges exist with
\* their kinds and are bound with "#", and the stage's queue exists and is bound
\* to the topic exchange.
C12_InputTopologyEstablished ==
    (regResult.outcome = "ok" /\ regResult.op \in Registrations) =>
        LET n == InputOf(regResult.op) IN
        /\ ExchangeConfig(n.fanout, FANOUT) \in exchanges
        /\ ExchangeConfig(n.topic, TOPIC) \in exchanges
        /\ Binding(n.fanout, n.topic, "#") \in ebindings
        /\ n.queue \in queues
        /\ \E b \in qbindings : b.exchange = n.topic /\ b.queue = n.queue

\* the output stage of the stage a register_* call registers: the stage whose
\* exchanges it provisions besides its own input
OutputOf(op) == IF op = "decoder" THEN "decoded" ELSE "validated"

\* C13: after a successful registration of a stage with an output stage O, the
\* pairs A.O.success.fanout/topic and A.O.failure.fanout/topic both exist, each
\* bound with "#".
C13_OutputTopologyEstablished ==
    (regResult.outcome = "ok" /\ regResult.op \in {"decoder", "validator"}) =>
        \A branch \in {"success", "failure"} :
            LET pair == Established(AppName \o "." \o OutputOf(regResult.op) \o "." \o branch)
            IN pair.ex \subseteq exchanges /\ pair.eb \subseteq ebindings

\* C14: a run() called while a component is missing ends refused: it does not
\* raise, does not start consuming, leaves the connection open, and no delivery
\* is handled then or afterwards.
C14_RefusesIncompleteConfiguration ==
    [][/\ (runState = "not_started" /\ runState' # "not_started"
           /\ ~(decoder /\ validator /\ processor))
              => (runState' = "refused" /\ handled' = << >> /\ ~connectionClosed')
       /\ runState = "refused"
              => (runState' = "refused" /\ handled' = handled
                  /\ connectionClosed' = connectionClosed)]_vars

C14_Witness ==
    /\ runState = "refused"
    /\ ActiveConsumers # {}
    /\ decoder /\ ~validator

\* C15: once run() is over because of a fatal error (re-raised to the caller:
\* "failed") or of an interrupt (run() returned: "interrupted"), the connection is
\* closed; and the consume loop ends in no other way.
C15_ShutdownDiscipline ==
    /\ runState \in {"failed", "interrupted"} => connectionClosed
    /\ runState \in {"not_started", "refused", "returned", "consuming", "failed", "interrupted"}
    /\ (handled # << >> /\ runState # "consuming") => runState \in {"failed", "interrupted"}

C15_Witness ==
    /\ runState = "failed"
    /\ connectionClosed
    /\ handled # << >>

\* the stage names the program's names are built from
StageNames == {"raw", "decoded", "validated", "decodification", "validation", "processing"}

\* C16: the exchange and the queue a register_* call binds together are named
\* A.S.topic and A.S.queue for one and the same stage name S (and the pair it
\* sets up A.S.fanout and A.S.topic).
C16_NamesFollowConvention ==
    (reg.op \in Registrations /\ comp.cls = "TopicQueuePair") =>
        \E S \in StageNames :
            /\ comp.topic = AppName \o "." \o S \o ".topic"
            /\ comp.queue = AppName \o "." \o S \o ".queue"
            /\ InputOf(reg.op).fanout = AppName \o "." \o S \o ".fanout"

\* routing keys a message may reach the topic exchange with
RoutingKeys == {"", "sensor.temp"}

\* the broker's topic match, for the patterns in use: "#" matches every routing
\* key, a pattern without wildcards matches itself only
TopicMatches(pattern, key) == pattern = "#" \/ pattern = key

\* C17: when queue provisioning, given no routing key, has bound its queue, the
\* queue is bound to the topic exchange with "#": whatever the routing key of a
\* message reaching the topic exchange, a binding of the queue matches it.
C17_DefaultRoutingKeyMatchesAll ==
    (comp.cls = "TopicQueuePair" /\ Finished /\ result = "ok"
     /\ ops[Len(ops)] = Op("queue_bind", comp.queue, "OK")) =>
        /\ QBinding(comp.topic, comp.queue, "#") \in qbindings
        /\ \A key \in RoutingKeys :
               \E b \in qbindings : /\ b.exchange = comp.topic
                                    /\ b.queue = comp.queue
                                    /\ TopicMatches(b.routing_key, key)

\* C18: when the bind step of ExchangePair.setup or TopicQueuePair.setup was
\* answered by a broker error other than "already bound", the call has failed.
C18_BindErrorsAreFatal ==
    (callNo >= 1 /\ Finished
     /\ \E i \in OpsOf("bind") \cup OpsOf("queue_bind") :
            ops[i].reply \notin {"OK", "ALREADY_BOUND"}) =>
        result = "error"

\* when the call started, the target exchange existed with another kind than topic
TopicConflictAtStart ==
    \E e \in startBroker.exchanges : e.name = comp.topic /\ e.type # TOPIC

\* C19: when the target exchange of TopicQueuePair.setup exists with a kind
\* other than topic, the call fails and attempts neither a queue declaration
\* nor the queue bind.
C19_QueueBindingConflictDetected ==
    (comp.cls = "TopicQueuePair" /\ callNo >= 1 /\ TopicConflictAtStart) =>
        /\ OpsOf("queue_passive") \cup OpsOf("queue_declare") \cup OpsOf("queue_bind") = {}
        /\ Finished => result = "error"

\* C20: when this process and the peer have both run ExchangePair.setup for the
\* same pair (no name being held by an exchange of another kind), whatever the
\* interleaving of their steps, both calls succeeded and the broker holds exactly
\* one exchange of each name, with its declared kind, and exactly one binding
\* between them, with "#".
C20_ConcurrentProvisionersAgree ==
    (IsPairCall /\ Finished /\ PeerFinished /\ ~ConflictAtStart) =>
        /\ result = "ok"
        /\ peer.result = "ok"
        /\ {e \in exchanges : e.name = comp.source.name} = {comp.source}
        /\ {e \in exchanges : e.name = comp.dest.name} = {comp.dest}
        /\ {b \in ebindings : b.source = comp.source.name /\ b.destination = comp.dest.name}
               = {Binding(comp.source.name, comp.dest.name, "#")}

C20_Witness ==
    /\ IsPairCall /\ Finished /\ result = "ok"
    /\ PeerFinished /\ peer.result = "ok"
    /\ \E i \in OpsOf("declare") : \E j \in 1..Len(peer.ops) :
           peer.ops[j].op = "declare" /\ peer.ops[j].name = ops[i].name
    /\ ops[Len(ops)].reply = "ALREADY_BOUND"

\* the operations of the call that settled exchange name: a passive declaration
\* answered OK, or a real declaration answered OK
Settled(name) ==
    {i \in 1..Len(ops) : /\ ops[i].name = name
                         /\ ops[i].op \in {"passive_declare", "declare"}
                         /\ ops[i].reply = "OK"}

\* the checks and declarations of the call that are about exchange name
About(name) ==
    {i \in 1..Len(ops) : ops[i].name = name /\ ops[i].op \in {"passive_declare", "declare"}}

\* C21: in ExchangePair.setup every operation about the fanout exchange comes
\* before every operation about the topic exchange, the topic exchange is taken
\* up only once the fanout exchange is settled (confirmed or created in this
\* call), and a bind is attempted only after both are settled.
C21_StepsInOrder ==
    IsPairCall =>
        /\ \A i \in About(comp.source.name), j \in About(comp.dest.name) : i < j
        /\ \A j \in About(comp.dest.name) : \E i \in Settled(comp.source.name) : i < j
        /\ \A b \in OpsOf("bind") :
               /\ \E i \in Settled(comp.source.name) : i < b
               /\ \E j \in Settled(comp.dest.name) : j < b

C21_Witness ==
    /\ IsPairCall /\ Finished /\ result = "ok"
    /\ Len(ops) = 4
    /\ ops[2] = Op("declare", comp.source.name, "OK")
    /\ ops[3] = Op("passive_declare", comp.dest.name, "OK")
    /\ ops[4].op = "bind"

\* C22: a real exchange declaration is issued only right after the passive
\* declaration of the same exchange, in the same call, was answered not-found;
\* and no real declaration is issued for an exchange whose passive declaration
\* was answered OK.
C22_PassiveCheckPrecedesCreation ==
    callNo >= 1 =>
        /\ \A i \in OpsOf("declare") :
               /\ i > 1
               /\ ops[i - 1] = Op("passive_declare", ops[i].name, "NOT_FOUND")
        /\ \A i \in OpsOf("passive_declare") :
               ops[i].reply = "OK" => \A j \in OpsOf("declare") : ops[j].name # ops[i].name

C22_Witness ==
    /\ IsPairCall /\ Finished /\ result = "ok"
    /\ Len(ops) = 4
    /\ ops[1] = Op("passive_declare", comp.source.name, "OK")
    /\ ops[2] = Op("passive_declare", comp.dest.name, "NOT_FOUND")
    /\ ops[3] = Op("declare", comp.dest.name, "OK")

\* the operations of the call that repeat operation i (same kind, same name)
SameStep(i) == {j \in 1..Len(ops) : ops[j].op = ops[i].op /\ ops[j].name = ops[i].name}

\* a call issues at most five broker operations (two checks, two declarations
\* and a bind; or check, declaration, queue check, queue declaration and bind),
\* obtains at most one channel per closure and three in all, and issues no
\* operation more than twice
BoundedCall ==
    callNo >= 1 =>
        /\ Len(ops) <= 5
        /\ reacquired <= Cardinality(Closures)
        /\ reacquired <= 3
        /\ \A i \in 1..Len(ops) : Cardinality(SameStep(i)) <= 2

\* C23: every ExchangePair.setup / TopicQueuePair.setup call, whatever the
\* broker answers to each of its steps, stays within a constant number of broker
\* operations and of channel reacquisitions (at most one per failed step), and
\* ends: a call in progress eventually returns or raises.
C23_BoundedAndTerminates ==
    /\ []BoundedCall
    /\ (pc # Idle) ~> (pc = Idle /\ result \in {"ok", "error"})

C23_Witness ==
    /\ comp.cls = "TopicQueuePair" /\ Finished
    /\ Len(ops) = 4
    /\ Cardinality({i \in 1..Len(ops) : ops[i].reply = "CHANNEL_ERROR"}) = 3
    /\ reacquired = 3

\* the components a register_* call sets up
ComponentsOf(op) ==
    IF op = "decoder" THEN DecoderComponents
    ELSE IF op = "validator" THEN ValidatorComponents
    ELSE ProcessorComponents

\* a register_* call has just been entered: its first component is built on
\* RabbitClient.channel and no broker operation has been issued yet
RegistrationStarts ==
    /\ reg.op \in Registrations
    /\ reg.todo = Tail(ComponentsOf(reg.op))
    /\ pc # Idle
    /\ ops = << >>

\* C24: at the start of every register_decoder / register_validator /
\* register_processor call, RabbitClient.channel is open, whatever earlier
\* registrations met; and no registration is aborted because a component was
\* handed a closed channel.
C24_SharedChannelStaysUsable ==
    /\ RegistrationStarts => ~isClosed.rabbit
    /\ (regResult.op \in Registrations /\ regResult.outcome = "raised" /\ reg = NoReg)
           => error # "ChannelWrongStateError"

\* C25: in a setup() call that found its channel open, the channel the next
\* broker operation goes to is open, and no operation of the call was issued on
\* a closed channel.
C25_OperationsOnOpenChannel ==
    (callNo >= 1 /\ StartedOpen) =>
        /\ pc # Idle => ~isClosed[channel]
        /\ \A i \in 1..Len(ops) : ops[i].reply # "CHANNEL_WRONG_STATE"

C25_Witness ==
    /\ callNo >= 1 /\ StartedOpen /\ Finished /\ result = "ok"
    /\ reacquired = 3
    /\ Len(ops) = 5
    /\ ~isClosed[channel]

====
